---- MODULE Spec2Model ----
(***************************************************************************)
(* Expense Tracker (src/expense_tracker.py): a Streamlit script that is    *)
(* re-executed from the top on every user interaction.  Each execution     *)
(* loads the ledger from expenses_data.csv, derives the filtered view and  *)
(* the aggregates, and, when a button was pressed, mutates the ledger,     *)
(* rewrites the file and asks for a rerun.                                 *)
(*                                                                         *)
(* Dates are integers yyyymmdd.  Amounts are floats: a finite amount is    *)
(* held in integer cents, and inf and nan are kept as separate values.     *)
(* A missing cell of the dataframe (pandas NaN) is the value NaN.          *)
(***************************************************************************)
EXTENDS Integers, Sequences, FiniteSets, TLC

\* ---------------------------------------------------------------- bounds
MaxRecords == 2   \* ledger length up to which the Add form is exercised
MaxLen == 2       \* length of the persisted files the view is derived from

\* ------------------------------------------------------------- constants
CATEGORIES ==
    << "Food", "Transportation", "Utilities", "Entertainment",
       "Other", "Healthcare", "Insurance", "Subscription", "Travel" >>

AllCategories == {CATEGORIES[i] : i \in 1..Len(CATEGORIES)}

\* datetime.date.today() of the session
Today == 20240207

NaN == "NaN"
None == -1

\* ------------------------------------------------------------------ state
VARIABLES
    file,             \* expenses_data.csv
    df,               \* the ledger of the current script run
    start_date,       \* sidebar widgets
    end_date,
    category_filter,
    sort_order,
    filtered_df,      \* the filtered view of the current script run
    selected_index,   \* the "Select an expense to delete" selectbox
    pc                \* "idle": the run ended, the page waits for the user;
                      \* "added" / "deleted": the handler called st.rerun()

vars == << file, df, start_date, end_date, category_filter, sort_order,
           filtered_df, selected_index, pc >>

\* ------------------------------------------------------------------ dates
Year(d) == d \div 10000
Month(d) == (d \div 100) % 100
Day(d) == d % 100

\* today.replace(day=1)
FirstOfMonth(d) == (d \div 100) * 100 + 1

\* ----------------------------------------------------------------- floats
Fin(v) == [kind |-> "fin", val |-> v]
Inf == [kind |-> "inf", val |-> 0]
NaNf == [kind |-> "nan", val |-> 0]

\* Series.sum(): NaN is skipped, the empty sum is 0, inf absorbs.
RECURSIVE FinSum(_)
FinSum(s) ==
    IF s = <<>> THEN 0
    ELSE (IF Head(s).kind = "fin" THEN Head(s).val ELSE 0) + FinSum(Tail(s))

Sum(s) ==
    IF \E i \in 1..Len(s) : s[i].kind = "inf" THEN Inf ELSE Fin(FinSum(s))

Amounts(rows) == [i \in 1..Len(rows) |-> rows[i].Amount]

\* Python float(amount_str): the texts of the form that float() accepts, with
\* their values (finite ones in cents); every other text raises ValueError.
FloatLiterals ==
    [s \in {"3.5", "inf", "nan"} |->
        CASE s = "3.5" -> Fin(350)
          [] s = "inf" -> Inf
          [] s = "nan" -> NaNf]

\* try: amount_val = float(amount_str) / except ValueError: amount_val = 0.0
amount_val(amount_str) ==
    IF amount_str \in DOMAIN FloatLiterals
    THEN FloatLiterals[amount_str]
    ELSE Fin(0)

\* ------------------------------------------------------- the CSV file
\* Texts that read_csv takes for a missing value (its default na_values).
NaValues == {"", "NA", "N/A", "NaN", "nan", "null", "NULL", "None", "n/a",
             "#N/A", "<NA>"}

\* to_csv of a text cell: a missing value is written as the empty field.
FormatText(v) == IF v = NaN THEN "" ELSE v
\* read_csv of a text cell.
ParseText(s) == IF s \in NaValues THEN NaN ELSE s

\* to_csv of a date cell (ISO text, here its three numbers) and
\* pd.to_datetime(...).dt.date of it.
FormatDate(d) == << Year(d), Month(d), Day(d) >>
ParseDate(t) == t[1] * 10000 + t[2] * 100 + t[3]

\* to_csv of a float cell and read_csv of it.
FormatFloat(a) ==
    CASE a.kind = "fin" -> [txt |-> "num", val |-> a.val]
      [] a.kind = "inf" -> [txt |-> "inf", val |-> 0]
      [] a.kind = "nan" -> [txt |-> "", val |-> 0]
ParseFloat(t) ==
    CASE t.txt = "num" -> Fin(t.val)
      [] t.txt = "inf" -> Inf
      [] t.txt = "" -> NaNf

FormatRow(r) ==
    [Date |-> FormatDate(r.Date), Title |-> FormatText(r.Title),
     Description |-> FormatText(r.Description),
     Amount |-> FormatFloat(r.Amount), Category |-> FormatText(r.Category)]

\* A row of the dataframe read from line i of the file: RangeIndex label i-1.
ParseRow(t, i) ==
    [idx |-> i - 1, Date |-> ParseDate(t.Date), Title |-> ParseText(t.Title),
     Description |-> ParseText(t.Description),
     Amount |-> ParseFloat(t.Amount), Category |-> ParseText(t.Category)]

NoFile == [exists |-> FALSE, rows |-> <<>>]

load_data(f) ==
    IF f.exists
    THEN [i \in 1..Len(f.rows) |-> ParseRow(f.rows[i], i)]
    ELSE <<>>

save_data(d) ==
    [exists |-> TRUE, rows |-> [i \in 1..Len(d) |-> FormatRow(d[i])]]

\* The field values of a row, without its index label.
Values(r) ==
    [Date |-> r.Date, Title |-> r.Title, Description |-> r.Description,
     Amount |-> r.Amount, Category |-> r.Category]

Ledger(d) == [i \in 1..Len(d) |-> Values(d[i])]

Labels(rows) == {rows[i].idx : i \in 1..Len(rows)}

\* ------------------------------------------------------------ Filter Engine
\* An end date that is not included.
DateMask_exclusive(r, a, b) == r.Date >= a /\ r.Date < b

\* (Date >= start_date) & (Date <= end_date)
DateMask(r, a, b) == r.Date >= a /\ r.Date <= b

\* A full selection taken for no selection.
CategoryMask_full(r, cats) ==
    cats = {} \/ cats = AllCategories \/ r.Category \in cats

\* if category_filter: Category.isin(category_filter)
CategoryMask(r, cats) == cats = {} \/ r.Category \in cats

Masked(d, a, b, cats) ==
    LET Keep(r) == DateMask(r, a, b) /\ CategoryMask(r, cats)
    IN  SelectSeq(d, Keep)

\* The sort direction inverted.
ascending_sort_inverted(order) == order = "Newest First"

ascending_sort(order) == order = "Oldest First"

IsSorted(rows, asc) ==
    \A i \in 1..(Len(rows) - 1) :
        IF asc THEN rows[i].Date <= rows[i + 1].Date
               ELSE rows[i].Date >= rows[i + 1].Date

\* The rows of S that may come first: those of the least date when ascending,
\* of the greatest date otherwise.
Firsts(S, asc) ==
    {r \in S : \A q \in S : IF asc THEN r.Date <= q.Date
                                   ELSE r.Date >= q.Date}

RECURSIVE Orderings(_, _)
Orderings(S, asc) ==
    IF S = {} THEN {<<>>}
    ELSE UNION {{<< r >> \o t : t \in Orderings(S \ {r}, asc)} :
                    r \in Firsts(S, asc)}

\* sort_values("Date", ascending=asc) with the default kind="quicksort", which
\* is not a stable sort: the rows come out ordered by date, and rows of equal
\* date in whatever order the sorting routine of the build leaves them.
sort_values(rows, asc) ==
    Orderings({rows[i] : i \in 1..Len(rows)}, asc)

filtered_views(d, a, b, cats, order) ==
    sort_values(Masked(d, a, b, cats), ascending_sort(order))

\* st.selectbox(..., filtered_df.index): the first option, None without options
DefaultSelection(view) == IF view = <<>> THEN None ELSE view[1].idx

\* ------------------------------------------------------- Mutation Handlers
\* The selected label taken for a position in the ledger as displayed: the
\* row removed is the one at the place the selected row has in the view.
drop_by_position(d, label) ==
    LET k == CHOOSE i \in 1..Len(d) :
                 \/ i <= Len(filtered_df) /\ filtered_df[i].idx = label
                 \/ (\A j \in 1..Len(filtered_df) : filtered_df[j].idx # label)
                    /\ i = 1
    IN  [i \in 1..(Len(d) - 1) |-> IF i < k THEN d[i] ELSE d[i + 1]]

\* df.drop(selected_index): the rows whose index label is not the selected one
drop(d, label) ==
    LET Keep(r) == r.idx # label
    IN  SelectSeq(d, Keep)

new_entry(date, title, description, amount_str, category) ==
    [Date |-> date, Title |-> title, Description |-> description,
     Amount |-> amount_val(amount_str), Category |-> category]

\* pd.concat([df, new_entry], ignore_index=True): appended, relabelled 0..n
concat(d, e) ==
    LET all == Append(Ledger(d), e)
    IN  [i \in 1..Len(all) |->
            [idx |-> i - 1, Date |-> all[i].Date, Title |-> all[i].Title,
             Description |-> all[i].Description, Amount |-> all[i].Amount,
             Category |-> all[i].Category]]

\* -------------------------------------------------------------- Aggregator
Max(S) == CHOOSE x \in S : \A y \in S : y <= x
Min(S) == CHOOSE x \in S : \A y \in S : x <= y

\* filtered_df["Amount"].sum() if not filtered_df.empty else 0
current_total ==
    IF filtered_df # <<>> THEN Sum(Amounts(filtered_df)) ELSE Fin(0)

\* filtered_dates.dt.month.max() and filtered_dates.dt.year.max(): each the
\* maximum of its own column
current_month == Max({Month(filtered_df[i].Date) : i \in 1..Len(filtered_df)})
current_year == Max({Year(filtered_df[i].Date) : i \in 1..Len(filtered_df)})

\* the rows of df with year == current_year and month == current_month - 1
last_month_data ==
    LET Keep(r) == Year(r.Date) = current_year
                   /\ Month(r.Date) = current_month - 1
    IN  SelectSeq(df, Keep)

last_month_total ==
    IF last_month_data # <<>> THEN Sum(Amounts(last_month_data)) ELSE Fin(0)

\* groupby(...) leaves out the rows whose key is missing (dropna=True)
Keyed(rows) ==
    LET Keep(r) == r.Category # NaN
    IN  SelectSeq(rows, Keep)

\* The totals taken from the full ledger instead of the filtered view.
by_category_unfiltered ==
    [c \in {r.Category : r \in {Keyed(df)[i] : i \in 1..Len(Keyed(df))}} |->
        LET Keep(r) == r.Category = c
        IN  Sum(Amounts(SelectSeq(df, Keep)))]

\* filtered_df.groupby("Category")["Amount"].sum(): one total for each category
\* that occurs in the view
by_category ==
    [c \in {r.Category : r \in {Keyed(filtered_df)[i] :
                                    i \in 1..Len(Keyed(filtered_df))}} |->
        LET Keep(r) == r.Category = c
        IN  Sum(Amounts(SelectSeq(filtered_df, Keep)))]

\* by_category["Amount"].sum()
total_expenses ==
    LET cs == DOMAIN by_category
        RECURSIVE Tot(_)
        Tot(S) == IF S = {} THEN <<>>
                  ELSE LET c == CHOOSE x \in S : TRUE
                       IN  << by_category[c] >> \o Tot(S \ {c})
    IN  Sum(Tot(cs))

GroupOptions == {"Day", "Month", "Year"}

\* pd.Grouper(key="Date", freq=...): the bin of a date
Period(group_option, d) ==
    IF group_option = "Day" THEN d
    ELSE IF group_option = "Month" THEN d \div 100
    ELSE d \div 10000

\* groupby([Grouper, "Category"])["Amount"].sum(): one total for each
\* (period, category) pair that occurs in the rows
groupby_sum(rows, group_option) ==
    LET keyed == Keyed(rows)
        keys == {<< Period(group_option, keyed[i].Date), keyed[i].Category >> :
                    i \in 1..Len(keyed)}
    IN  [k \in keys |->
            LET Keep(r) == Period(group_option, r.Date) = k[1]
                           /\ r.Category = k[2]
            IN  Sum(Amounts(SelectSeq(keyed, Keep)))]

\* unstack() without a fill value: the missing entries stay missing.
unstack_unfilled(s, fill) ==
    LET P == {k[1] : k \in DOMAIN s}
        C == {k[2] : k \in DOMAIN s}
    IN  [p \in P |-> [c \in C |->
            IF << p, c >> \in DOMAIN s THEN s[<< p, c >>] ELSE NaNf]]

\* .unstack(fill_value=fill): a table with a row for each period and a column
\* for each category of the series, fill where the series has no entry
unstack(s, fill) ==
    LET P == {k[1] : k \in DOMAIN s}
        C == {k[2] : k \in DOMAIN s}
    IN  [p \in P |-> [c \in C |->
            IF << p, c >> \in DOMAIN s THEN s[<< p, c >>] ELSE fill]]

RECURSIVE Ascending(_)
Ascending(S) ==
    IF S = {} THEN <<>> ELSE << Min(S) >> \o Ascending(S \ {Min(S)})

\* .sort_index(): the rows of the table in ascending order of period
sort_index(t) == [index |-> Ascending(DOMAIN t), cell |-> t]

grouped(group_option) ==
    sort_index(unstack(groupby_sum(filtered_df, group_option), Fin(0)))

\* ----------------------------------------------------------------- inputs
StartDates == {20231220, FirstOfMonth(Today)}
EndDates == {20240131, Today}
CategorySelections == {{}, {"Food"}, AllCategories}
SortOrders == {"Newest First", "Oldest First"}

FormDates == {20240105, Today}
FormTitles == {"", "Bus"}
FormDescriptions == {"ride"}
FormAmounts == {"abc", "3.5", "inf"}
FormCategories == {"Food"}

\* Persisted files the view is derived from, among them files that hold an
\* unknown category ("Misc") or no category.  The expenses of one date share
\* an amount, those of different dates differ in it.
FileDates == {20231220, 20240105, 20240207}
FileCategories == {"Food", "Misc", ""}
FileAmount(d) == Fin(Day(d) * 50)

FileRows ==
    {[Date |-> FormatDate(d), Title |-> "Bus", Description |-> "ride",
      Amount |-> FormatFloat(FileAmount(d)), Category |-> c] :
        d \in FileDates, c \in FileCategories}

Files ==
    {[exists |-> TRUE, rows |-> r] :
        r \in UNION {[1..n -> FileRows] : n \in 0..MaxLen}}

\* ------------------------------------------------------------------ script
\* Lines 40-60 and 86 of a run without a pressed button.
RunScript ==
    /\ df' = load_data(file)
    /\ filtered_df' \in filtered_views(df', start_date', end_date',
                                       category_filter', sort_order')
    /\ pc' = "idle"
    /\ UNCHANGED file

Defaults ==
    /\ start_date = FirstOfMonth(Today)
    /\ end_date = Today
    /\ category_filter = {}
    /\ sort_order = "Newest First"

FirstRun ==
    /\ Defaults
    /\ df = load_data(file)
    /\ filtered_df \in filtered_views(df, start_date, end_date,
                                      category_filter, sort_order)
    /\ selected_index = DefaultSelection(filtered_df)
    /\ pc = "idle"

Init ==
    /\ file = NoFile
    /\ FirstRun

InitView ==
    /\ file \in Files
    /\ FirstRun

SetStartDate(d) ==
    /\ pc = "idle"
    /\ start_date' = d
    /\ UNCHANGED << end_date, category_filter, sort_order >>
    /\ RunScript
    /\ selected_index' = DefaultSelection(filtered_df')

SetEndDate(d) ==
    /\ pc = "idle"
    /\ end_date' = d
    /\ UNCHANGED << start_date, category_filter, sort_order >>
    /\ RunScript
    /\ selected_index' = DefaultSelection(filtered_df')

SetCategoryFilter(c) ==
    /\ pc = "idle"
    /\ category_filter' = c
    /\ UNCHANGED << start_date, end_date, sort_order >>
    /\ RunScript
    /\ selected_index' = DefaultSelection(filtered_df')

SetSortOrder(o) ==
    /\ pc = "idle"
    /\ sort_order' = o
    /\ UNCHANGED << start_date, end_date, category_filter >>
    /\ RunScript
    /\ selected_index' = DefaultSelection(filtered_df')

\* An expense chosen in the selectbox and "Delete Expense" pressed: lines 86-93
DeleteExpense(i) ==
    /\ pc = "idle"
    /\ i \in Labels(filtered_df)
    /\ selected_index' = i
    /\ selected_index' # None
    /\ df' = drop(load_data(file), selected_index')
    /\ file' = save_data(df')
    /\ pc' = "deleted"
    /\ UNCHANGED << start_date, end_date, category_filter, sort_order,
                    filtered_df >>

\* "Add Expense" submitted: lines 105-121
AddExpense(date, title, description, amount_str, category) ==
    /\ pc = "idle"
    /\ Len(df) < MaxRecords
    /\ df' = concat(load_data(file),
                    new_entry(date, title, description, amount_str, category))
    /\ file' = save_data(df')
    /\ pc' = "added"
    /\ UNCHANGED << start_date, end_date, category_filter, sort_order,
                    filtered_df, selected_index >>

\* st.rerun(): the script runs again from the top
Rerun ==
    /\ pc \in {"added", "deleted"}
    /\ UNCHANGED << start_date, end_date, category_filter, sort_order >>
    /\ RunScript
    /\ selected_index' = DefaultSelection(filtered_df')

Next ==
    \/ \E d \in StartDates : SetStartDate(d)
    \/ \E d \in EndDates : SetEndDate(d)
    \/ \E c \in CategorySelections : SetCategoryFilter(c)
    \/ \E o \in SortOrders : SetSortOrder(o)
    \/ \E i \in 0..(MaxRecords - 1) : DeleteExpense(i)
    \/ \E date \in FormDates, title \in FormTitles,
          description \in FormDescriptions, amount_str \in FormAmounts,
          category \in FormCategories :
            AddExpense(date, title, description, amount_str, category)
    \/ Rerun

Spec == Init /\ [][Next]_vars

NextView ==
    \/ \E d \in StartDates : SetStartDate(d)
    \/ \E d \in EndDates : SetEndDate(d)
    \/ \E c \in CategorySelections : SetCategoryFilter(c)
    \/ \E o \in SortOrders : SetSortOrder(o)

SpecView == InitView /\ [][NextView]_vars

\* ============================================================== properties
Rows(rows) == {rows[i] : i \in 1..Len(rows)}

asc == ascending_sort(sort_order)

\* The sum, in cents, of the finite amounts of the rows at the places I.
RECURSIVE CentsAt(_, _)
CentsAt(rows, I) ==
    IF I = {} THEN 0
    ELSE LET i == CHOOSE x \in I : TRUE
         IN  rows[i].Amount.val + CentsAt(rows, I \ {i})

\* C1: without a category selection the filtered view holds exactly the
\* records of the ledger whose date d satisfies start_date <= d <= end_date:
\* every row of the view is such a record, none of them is missing, and none
\* occurs twice.
C1_DateRangeExact ==
    (pc = "idle" /\ category_filter = {}) =>
        /\ \A i \in 1..Len(filtered_df) :
              /\ \E j \in 1..Len(df) : df[j] = filtered_df[i]
              /\ start_date <= filtered_df[i].Date
              /\ filtered_df[i].Date <= end_date
        /\ \A j \in 1..Len(df) :
              (start_date <= df[j].Date /\ df[j].Date <= end_date)
                  => \E i \in 1..Len(filtered_df) : filtered_df[i] = df[j]
        /\ \A i, k \in 1..Len(filtered_df) :
              filtered_df[i] = filtered_df[k] => i = k

\* A view without category selection that holds a record dated on the end
\* date while a record of the ledger before the start date is left out.
C1_Witness ==
    /\ pc = "idle" /\ category_filter = {}
    /\ \E i \in 1..Len(filtered_df) : filtered_df[i].Date = end_date
    /\ \E j \in 1..Len(df) : df[j].Date < start_date

\* C2 as stated: the view with all nine categories selected is a view that
\* the empty selection gives for the same ledger and date range, and the
\* other way round.
C2_EmptySameAsAll ==
    pc = "idle" =>
        /\ category_filter = AllCategories =>
              filtered_df \in filtered_views(df, start_date, end_date, {},
                                             sort_order)
        /\ category_filter = {} =>
              filtered_df \in filtered_views(df, start_date, end_date,
                                             AllCategories, sort_order)

\* C2 as amended: with all nine categories selected the view holds the
\* records in the date range whose category is one of the nine, that is the
\* records of the empty selection's view less those of an unknown or missing
\* category; the view of the empty selection holds every record in range.
C2_AllKeepsKnown ==
    pc = "idle" =>
        LET inrange == {r \in Rows(df) :
                           start_date <= r.Date /\ r.Date <= end_date}
        IN  /\ category_filter = AllCategories =>
                  /\ Rows(filtered_df) =
                        {r \in inrange : r.Category \in AllCategories}
                  /\ Len(filtered_df) = Cardinality(Rows(filtered_df))
            /\ category_filter = {} =>
                  /\ Rows(filtered_df) = inrange
                  /\ Len(filtered_df) = Cardinality(inrange)

\* All nine categories selected, a record shown, and a record of an unknown
\* category in the date range.
C2_Witness ==
    /\ pc = "idle" /\ category_filter = AllCategories
    /\ filtered_df # <<>>
    /\ \E j \in 1..Len(df) :
          /\ start_date <= df[j].Date /\ df[j].Date <= end_date
          /\ df[j].Category = "Misc"

\* C3 as stated: the view is ordered by date in the chosen direction and
\* records of equal date keep the order they have in the ledger.
C3_StableSort ==
    pc = "idle" =>
        /\ IsSorted(filtered_df, asc)
        /\ \A i, j \in 1..Len(filtered_df) :
              (i < j /\ filtered_df[i].Date = filtered_df[j].Date)
                  => filtered_df[i].idx < filtered_df[j].idx

\* C3 as amended: the view is a rearrangement of the records that pass the
\* filter, ordered by date, descending for "Newest First" and ascending for
\* "Oldest First".
C3_SortedByDate ==
    pc = "idle" =>
        /\ \A i \in 1..(Len(filtered_df) - 1) :
              IF sort_order = "Oldest First"
              THEN filtered_df[i].Date <= filtered_df[i + 1].Date
              ELSE filtered_df[i].Date >= filtered_df[i + 1].Date
        /\ Rows(filtered_df) =
              Rows(Masked(df, start_date, end_date, category_filter))
        /\ Len(filtered_df) =
              Len(Masked(df, start_date, end_date, category_filter))

\* Two records of different dates shown oldest first, in the reverse of
\* their order in the ledger.
C3_Witness ==
    /\ pc = "idle" /\ sort_order = "Oldest First"
    /\ Len(filtered_df) = 2
    /\ filtered_df[1].Date < filtered_df[2].Date
    /\ filtered_df[1].idx > filtered_df[2].idx

\* C4: the ledger loaded after an add has the added record as its last
\* record, with the date, title, description, amount and category it was
\* added with.
C4_AddRoundTrip ==
    [][(pc = "added" /\ pc' = "idle") =>
          /\ Len(df') = Len(df)
          /\ Values(df'[Len(df')]) = Values(df[Len(df)])]_vars

MonthNo(d) == Year(d) * 12 + Month(d) - 1

\* C6: the last month total is the sum of the amounts of the records of the
\* full ledger in the calendar month before the latest (year, month) of the
\* filtered view, 0 without such records.
C6_LastMonthTotal ==
    (pc = "idle" /\ filtered_df # <<>>) =>
        LET latest == Max({MonthNo(filtered_df[i].Date) :
                              i \in 1..Len(filtered_df)})
            prev == {j \in 1..Len(df) : MonthNo(df[j].Date) = latest - 1}
        IN  last_month_total = Fin(CentsAt(df, prev))

IsLeap(y) == (y % 4 = 0 /\ y % 100 # 0) \/ y % 400 = 0

DaysInMonth(y, m) ==
    IF m = 2 THEN (IF IsLeap(y) THEN 29 ELSE 28)
    ELSE IF m \in {4, 6, 9, 11} THEN 30 ELSE 31

\* The periods of the calendar from the period of date lo to that of date hi.
PeriodsBetween(group_option, lo, hi) ==
    IF group_option = "Day"
    THEN {d \in {y * 10000 + m * 100 + dd :
                    y \in Year(lo)..Year(hi), m \in 1..12, dd \in 1..31} :
             /\ Day(d) <= DaysInMonth(Year(d), Month(d))
             /\ lo <= d /\ d <= hi}
    ELSE IF group_option = "Month"
    THEN {ym \in {y * 100 + m : y \in Year(lo)..Year(hi), m \in 1..12} :
             lo \div 100 <= ym /\ ym <= hi \div 100}
    ELSE Year(lo)..Year(hi)

IsAscending(seq) == \A i \in 1..(Len(seq) - 1) : seq[i] < seq[i + 1]

\* The places of the view's records of period p and category c.
PlacesOf(group_option, p, c) ==
    {i \in 1..Len(filtered_df) :
        /\ Period(group_option, filtered_df[i].Date) = p
        /\ filtered_df[i].Category = c}

\* C7 as stated, for a view whose records all have a category: at each
\* granularity the table has a row for every period from the earliest to the
\* latest period of the view, in ascending order, and in every row a value
\* for every category of the view, 0 where no record of the view falls.
C7_ZeroFilledRange ==
    (pc = "idle" /\ filtered_df # <<>>
     /\ \A i \in 1..Len(filtered_df) : filtered_df[i].Category # NaN) =>
        \A g \in GroupOptions :
            LET t == grouped(g)
                dates == {filtered_df[i].Date : i \in 1..Len(filtered_df)}
                cats == {filtered_df[i].Category : i \in 1..Len(filtered_df)}
                         \ {NaN}
            IN  /\ IsAscending(t.index)
                /\ \A p \in PeriodsBetween(g, Min(dates), Max(dates)) :
                      /\ \E i \in 1..Len(t.index) : t.index[i] = p
                      /\ p \in DOMAIN t.cell
                      /\ \A c \in cats :
                            /\ c \in DOMAIN t.cell[p]
                            /\ t.cell[p][c] =
                                  Fin(CentsAt(filtered_df, PlacesOf(g, p, c)))

\* C7 as amended: at each granularity the table has a row for exactly the
\* periods in which a record of the view with a category falls, in ascending
\* order, and in every row a value for exactly the categories that occur in
\* the view: the sum of the amounts of the view's records of that period and
\* category, 0 where there is none.  A period between the earliest and the
\* latest in which no record falls has no row.
C7_ZeroFilledObserved ==
    (pc = "idle" /\ filtered_df # <<>>) =>
        \A g \in GroupOptions :
            LET t == grouped(g)
                withcat == {i \in 1..Len(filtered_df) :
                               filtered_df[i].Category # NaN}
                periods == {Period(g, filtered_df[i].Date) : i \in withcat}
                cats == {filtered_df[i].Category : i \in withcat}
            IN  /\ IsAscending(t.index)
                /\ {t.index[i] : i \in 1..Len(t.index)} = periods
                /\ DOMAIN t.cell = periods
                /\ \A p \in periods :
                      /\ DOMAIN t.cell[p] = cats
                      /\ \A c \in cats :
                            /\ t.cell[p][c] =
                                  Fin(CentsAt(filtered_df, PlacesOf(g, p, c)))
                            /\ PlacesOf(g, p, c) = {} => t.cell[p][c] = Fin(0)

\* A view of two records of different months and different categories: the
\* monthly table holds zeros, and the months lie apart.
C7_Witness ==
    /\ pc = "idle"
    /\ Len(filtered_df) = 2
    /\ filtered_df[1].Category = "Food"
    /\ filtered_df[2].Category = "Misc"
    /\ filtered_df[1].Date \div 100 > (filtered_df[2].Date \div 100) + 1
    /\ grouped("Month").cell[filtered_df[1].Date \div 100]["Misc"] = Fin(0)

\* The places of the view's records of category c.
PlacesOfCategory(c) ==
    {i \in 1..Len(filtered_df) : filtered_df[i].Category = c}

\* The sum of the returned totals, in cents.
RECURSIVE CentsOfTotals(_)
CentsOfTotals(C) ==
    IF C = {} THEN 0
    ELSE LET c == CHOOSE x \in C : TRUE
         IN  by_category[c].val + CentsOfTotals(C \ {c})

\* C8 as stated: a total is returned for exactly the categories of the
\* view's records, each the sum of the amounts of the view's records of that
\* category, and the returned totals add up to the total of the view.
C8_CategoryTotals ==
    (pc = "idle" /\ filtered_df # <<>>) =>
        /\ \A c \in DOMAIN by_category :
              /\ PlacesOfCategory(c) # {}
              /\ by_category[c] = Fin(CentsAt(filtered_df, PlacesOfCategory(c)))
        /\ \A i \in 1..Len(filtered_df) :
              filtered_df[i].Category # NaN
                  => filtered_df[i].Category \in DOMAIN by_category
        /\ Fin(CentsOfTotals(DOMAIN by_category)) = current_total
        /\ total_expenses = current_total

\* C8 as amended: a total is returned for exactly the categories of the
\* view's records, each the sum of the amounts of the view's records of that
\* category; a record without a category is in no total, so the returned
\* totals add up to the total of the view's records that have a category.
C8_CategoryTotalsOfKeyed ==
    (pc = "idle" /\ filtered_df # <<>>) =>
        /\ \A c \in DOMAIN by_category :
              /\ PlacesOfCategory(c) # {}
              /\ by_category[c] = Fin(CentsAt(filtered_df, PlacesOfCategory(c)))
        /\ \A i \in 1..Len(filtered_df) :
              filtered_df[i].Category # NaN
                  => filtered_df[i].Category \in DOMAIN by_category
        /\ NaN \notin DOMAIN by_category
        /\ Fin(CentsOfTotals(DOMAIN by_category)) =
              Fin(CentsAt(filtered_df,
                          {i \in 1..Len(filtered_df) :
                              filtered_df[i].Category # NaN}))
        /\ total_expenses = Fin(CentsOfTotals(DOMAIN by_category))

\* A view that shows a record of an unknown category and one without a
\* category.
C8_Witness ==
    /\ pc = "idle"
    /\ Len(filtered_df) = 2
    /\ \E i \in 1..2 : filtered_df[i].Category = NaN
    /\ \E i \in 1..2 : filtered_df[i].Category = "Misc"

\* C9: every record of the ledger has a finite amount.
C9_FiniteAmounts ==
    \A i \in 1..Len(df) : df[i].Amount.kind = "fin"

\* C10: every add and every delete rewrites the file with the resulting
\* ledger before the rerun; the ledger loaded by the rerun is the ledger the
\* mutation produced; a run without add or delete leaves the file as it is.
C10_PersistedAfterMutation ==
    [][/\ pc' \in {"added", "deleted"} =>
             (pc = "idle" /\ file' = save_data(df'))
       /\ (pc \in {"added", "deleted"} /\ pc' = "idle") =>
             (file' = file /\ Ledger(df') = Ledger(df))
       /\ (pc = "idle" /\ pc' = "idle") => file' = file]_vars

====
